---- MODULE Spec2Model ----
(***************************************************************************)
(* Anandak assessment wizard: the AptitudeInsightApp step machine, the     *)
(* UserInfoStep form (zod schema, district list, debounced                 *)
(* transliteration), the AssessmentStep question loop and the ResultsStep  *)
(* mount effect (certificate store write and POST /api/log).               *)
(***************************************************************************)
EXTENDS Integers, Sequences, FiniteSets, TLC

\* Size of the question catalog used by the model.
NumQuestions == 3
\* Transliteration requests that may be awaiting their response at once.
MaxInflight == 2
\* Runs of the ResultsStep effect (mount plus re-runs) that are explored.
MaxEffectRuns == 3

VARIABLES
    step, lang, userData, assessmentData,
    form, districts, isTranslating, debounceTimeout, inflight, isSubmitted,
    showInstructions, currentQuestionIndex, answers, selectedOption, currentFeedback,
    hasLoggedRef, effectPending, effectRuns, finalAssessmentCalls,
    localStorage, sinkRequests, sinkStatus, toasts, route,
    isLoading, certData, certificateFeedbackCalls,
    session, storedBy,
    bodyClasses, beforeprint, afterprint, printing, printLog,
    logEnv, logBody, logResponses, dbRows,
    kaEnv, kaRequest, kaResponses, kaQueries, scriptResult,
    snapshotSize, documentsToMigrate, batchStart, batches, successCount, errorCount,
    migratePhase

appVars == <<step, lang, userData, assessmentData>>
infoVars == <<form, districts, isTranslating, debounceTimeout, inflight, isSubmitted>>
assessVars == <<showInstructions, currentQuestionIndex, answers, selectedOption, currentFeedback>>
resultVars == <<hasLoggedRef, effectPending, effectRuns>>
envVars == <<localStorage, sinkRequests, sinkStatus, toasts, route>>
certVars == <<isLoading, certData, certificateFeedbackCalls>>
\* Which wizard session is mounted, and which session wrote the certificate store.
sessVars == <<session, storedBy>>
\* document.body classes, window print listeners and the print dialog.
printVars == <<bodyClasses, beforeprint, afterprint, printing, printLog>>
\* POST /api/log: environment, request being handled, responses sent, rows inserted.
logVars == <<logEnv, logBody, logResponses, dbRows>>
\* Keep-alive route and script.
kaVars == <<kaEnv, kaRequest, kaResponses, kaQueries, scriptResult>>
\* migrateData of the migration script.
migVars == <<snapshotSize, documentsToMigrate, batchStart, batches, successCount, errorCount,
             migratePhase>>
serviceVars == <<printVars, logVars, kaVars, migVars>>
vars == <<appVars, infoVars, assessVars, resultVars, envVars, finalAssessmentCalls, certVars,
          sessVars, serviceVars>>

----------------------------------------------------------------------------
\* Values

\* JavaScript undefined / null for string-valued fields.
undefined == "undefined"
null == "null"

Languages == {"en", "hi"}

\* Text is a sequence of characters; <<>> is the empty string.

\* JSON texts are kept as the value they stand for; these two are a text that
\* JSON.parse rejects and the text null.
malformedJson == [malformed |-> TRUE]
jsonNull == [jsonNull |-> TRUE]

\* Values typed or picked in the PersonalInfo form when the form itself is explored.
NameInputs == {<<>>, <<" ">>, <<"a">>, <<"a", "b">>}
NameHiInputs == {<<>>, <<"A", "B">>}
AgeInputs == {0, 1, 121}
GenderEnum == {"Male", "Female", "Other", "Prefer not to say"}
GenderInputs == {"Male"}
MobileInputs == {<<"9">>}
EmailInputs == {<<"a">>, <<"a", "@", "b", ".", "c">>}

\* Values typed or picked on the way through the whole wizard.
WizardNameInputs == {<<"a", "b">>}
WizardNameHiInputs == {<<"A", "B">>}
WizardAgeInputs == {1}
WizardStates == {"Madhya Pradesh"}

statesWithDistricts ==
    [s \in {"Madhya Pradesh", "Maharashtra"} |->
        IF s = "Madhya Pradesh" THEN {"Bhopal"} ELSE {"Mumbai"}]

states == DOMAIN statesWithDistricts

Traits == <<"Gratitude", "Resilience", "Empathy", "Sociability", "Social Cognition", "Courage">>

questions == [i \in 1..NumQuestions |-> [id |-> i, trait |-> Traits[i], options |-> {1, 2, 3}]]

\* String(option.score): the value a radio item carries.
OptionValues == {"1", "2", "3"}

parseInt(value) ==
    CASE value = "1" -> 1
      [] value = "2" -> 2
      [] value = "3" -> 3

getIndividualFeedback(trait, score, l) == <<"feedback", trait, score, l>>

\* The score ranges of the overall feedback: low, medium and high thirds of
\* [N, 3N] (10 and 15 are the lower ends of medium and high for six questions).
finalBuckets ==
    LET mediumFrom == (10 * NumQuestions + 5) \div 6
        highFrom == (15 * NumQuestions + 5) \div 6
    IN  <<[name |-> "low", from |-> NumQuestions, to |-> mediumFrom - 1],
          [name |-> "medium", from |-> mediumFrom, to |-> highFrom - 1],
          [name |-> "high", from |-> highFrom, to |-> 3 * NumQuestions]>>

finalBucketsOf(score) ==
    {b \in {finalBuckets[i] : i \in 1..Len(finalBuckets)} : b.from <= score /\ score <= b.to}

\* A score outside every range is an input error of the engine.
getFinalFeedback(score, l) ==
    IF finalBucketsOf(score) = {} THEN <<"InvalidInput", score, l>>
    ELSE <<"final", (CHOOSE b \in finalBucketsOf(score) : TRUE).name, l>>

\* The descriptions are selected at random among the phrasings kept for a
\* feedback; v is the phrasing that one call draws.
Phrasings == {"first", "second"}

getFinalAssessment(feedback, l, v) == <<"assessment", feedback, l, v>>

----------------------------------------------------------------------------
\* UserInfoStep: schema

RECURSIVE trim(_)
trim(text) ==
    IF text = <<>> THEN <<>>
    ELSE IF Head(text) = " " THEN trim(Tail(text))
    ELSE IF text[Len(text)] = " " THEN trim(SubSeq(text, 1, Len(text) - 1))
    ELSE text

\* z.string().email(): local@domain with a dot inside the domain.
IsEmail(text) ==
    \E i \in 2..Len(text) :
        /\ text[i] = "@"
        /\ \A j \in 1..Len(text) : text[j] = "@" => j = i
        /\ \E k \in (i + 2)..(Len(text) - 1) : text[k] = "."

AgeMin == 1
AgeMax == 120

defaultValues ==
    [name |-> <<>>, name_hi |-> <<>>, age |-> <<>>, gender |-> undefined,
     countryCode |-> <<"+", "9", "1">>, mobile |-> <<>>, email |-> <<>>,
     state |-> "Madhya Pradesh", district |-> undefined]

\* InvalidFields with the upper age limit left out of the schema.
InvalidFields_NoAgeMax(values) ==
    {f \in {"name", "name_hi", "age", "gender", "countryCode", "mobile", "email", "state", "district"} :
        CASE f = "name" -> Len(values.name) < 2
          [] f = "name_hi" -> Len(values.name_hi) < 1
          [] f = "age" -> \/ values.age = <<>>
                          \/ values.age[1] < AgeMin
          [] f = "gender" -> values.gender \notin GenderEnum
          [] f = "countryCode" -> Len(values.countryCode) < 1
          [] f = "mobile" -> Len(values.mobile) < 1
          [] f = "email" -> ~(values.email = <<>> \/ IsEmail(values.email))
          [] f = "state" -> values.state = undefined \/ values.state = ""
          [] f = "district" -> values.district = undefined \/ values.district = ""}

\* The fields of values that formSchema rejects.
InvalidFields(values) ==
    {f \in {"name", "name_hi", "age", "gender", "countryCode", "mobile", "email", "state", "district"} :
        CASE f = "name" -> Len(values.name) < 2
          [] f = "name_hi" -> Len(values.name_hi) < 1
          [] f = "age" -> \/ values.age = <<>>
                          \/ values.age[1] < AgeMin
                          \/ values.age[1] > AgeMax
          [] f = "gender" -> values.gender \notin GenderEnum
          [] f = "countryCode" -> Len(values.countryCode) < 1
          [] f = "mobile" -> Len(values.mobile) < 1
          [] f = "email" -> ~(values.email = <<>> \/ IsEmail(values.email))
          [] f = "state" -> values.state = undefined \/ values.state = ""
          [] f = "district" -> values.district = undefined \/ values.district = ""}

formSchemaAccepts(values) == InvalidFields(values) = {}

----------------------------------------------------------------------------
\* Transliteration route (POST /api/transliterate)

\* What Google Input Tools answers for a text on success.
\* Devanagari letters are written as capitals.
hindiChar(c) ==
    CASE c = "a" -> "A"
      [] c = "b" -> "B"
      [] OTHER -> c

googleTransliteration(text) == [i \in 1..Len(text) |-> hindiChar(text[i])]

UpstreamOutcomes == {"SUCCESS", "NOT_SUCCESS", "STATUS_NOT_OK", "FETCH_THROWS"}

\* The transliteration field of the route's JSON response. In the catch branch the
\* request body has already been consumed, so the second req.json() rejects and
\* text falls back to ''.
transliterateRoute(text, upstream) ==
    CASE upstream = "SUCCESS" -> googleTransliteration(text)
      [] upstream = "NOT_SUCCESS" -> text
      [] OTHER -> <<>>

\* Outcomes of the browser's fetch of the route: a response, or a thrown error.
FetchOutcomes == UpstreamOutcomes \cup {"NETWORK_ERROR"}

RequestTexts == {n \in NameInputs : trim(n) # <<>>}

InflightCount == LET RECURSIVE sum(_)
                     sum(S) == IF S = {} THEN 0
                               ELSE LET t == CHOOSE t \in S : TRUE
                                    IN inflight[t] + sum(S \ {t})
                 IN sum(RequestTexts)

----------------------------------------------------------------------------
\* AptitudeInsightApp just mounted: the state of the wizard and of its steps.
WizardFresh ==
    /\ step = "language"
    /\ lang = "en"
    /\ userData = <<>>
    /\ assessmentData = <<>>
    /\ form = defaultValues
    /\ districts = {}
    /\ isTranslating = FALSE
    /\ debounceTimeout = <<>>
    /\ inflight = [t \in RequestTexts |-> 0]
    /\ isSubmitted = FALSE
    /\ showInstructions = TRUE
    /\ currentQuestionIndex = 0
    /\ answers = <<>>
    /\ selectedOption = null
    /\ currentFeedback = <<>>
    /\ hasLoggedRef = FALSE
    /\ effectPending = FALSE
    /\ effectRuns = 0
    /\ finalAssessmentCalls = 0

\* CertificatePage before its mount effect has run.
CertificateUnmounted ==
    /\ isLoading = TRUE
    /\ certData = <<>>

\* The first wizard session, on the home route of a browser with an empty store.
HomeMounted ==
    /\ WizardFresh
    /\ CertificateUnmounted
    /\ localStorage = <<>>
    /\ sinkRequests = <<>>
    /\ sinkStatus = "none"
    /\ toasts = {}
    /\ route = "home"
    /\ certificateFeedbackCalls = 0
    /\ session = 1
    /\ storedBy = 0

\* No print was requested on the page.
PrintIdle ==
    /\ bodyClasses = {}
    /\ beforeprint = <<>>
    /\ afterprint = <<>>
    /\ printing = <<>>
    /\ printLog = <<>>

\* /api/log has received no request.
LogIdle ==
    /\ logBody = <<>>
    /\ logResponses = <<>>
    /\ dbRows = <<>>

\* Neither the keep-alive route nor the keep-alive script has run.
KeepAliveIdle ==
    /\ kaRequest = <<>>
    /\ kaResponses = <<>>
    /\ kaQueries = <<>>
    /\ scriptResult = <<>>

\* The migration script has not been started.
MigrateIdle ==
    /\ snapshotSize = 0
    /\ documentsToMigrate = 0
    /\ batchStart = 0
    /\ batches = <<>>
    /\ successCount = 0
    /\ errorCount = 0
    /\ migratePhase = "idle"

\* Initial state of the wizard: the server side is configured and at rest.
Init ==
    /\ HomeMounted
    /\ PrintIdle
    /\ LogIdle
    /\ logEnv = [NEXT_PUBLIC_SUPABASE_URL |-> "url", SUPABASE_SERVICE_ROLE_KEY |-> "service"]
    /\ KeepAliveIdle
    /\ kaEnv = [CRON_SECRET |-> "s1", NEXT_PUBLIC_SUPABASE_URL |-> "url",
                SUPABASE_SECRET_KEY |-> "secret", SUPABASE_SERVICE_ROLE_KEY |-> "service",
                SUPABASE_PUBLISHABLE_KEY |-> "publishable",
                NEXT_PUBLIC_SUPABASE_ANON_KEY |-> "anon"]
    /\ MigrateIdle

----------------------------------------------------------------------------
\* AptitudeInsightApp

\* Choosing a language mounts UserInfoStep: its two effects run on the default
\* values (empty name clears name_hi; the default state loads its districts and
\* resets the district field).
handleLanguageSelect(selectedLang) ==
    /\ route = "home"
    /\ step = "language"
    /\ lang' = selectedLang
    /\ step' = "info"
    /\ form' = [defaultValues EXCEPT !.name_hi = <<>>, !.district = undefined]
    /\ districts' = statesWithDistricts[defaultValues.state]
    /\ isTranslating' = FALSE
    /\ UNCHANGED <<userData, assessmentData, debounceTimeout, inflight, isSubmitted,
                   assessVars, resultVars, envVars>>
    /\ UNCHANGED <<finalAssessmentCalls, certVars, sessVars, serviceVars>>

\* setUserData(data); setStep('assessment'). UserInfoStep unmounts, and the
\* cleanup of its name effect clears the debounce timer.
handleInfoSubmit(data) ==
    /\ userData' = <<data>>
    /\ step' = "assessment"
    /\ debounceTimeout' = <<>>

\* handleAssessmentComplete setting the step back to 'info'.
handleAssessmentComplete_BackToInfo(data) ==
    /\ assessmentData' = data
    /\ step' = "info"
    /\ hasLoggedRef' = FALSE
    /\ effectPending' = FALSE

\* setAssessmentData(data); setStep('results'). ResultsStep mounts with a fresh
\* ref and its effect scheduled.
handleAssessmentComplete(data) ==
    /\ assessmentData' = data
    /\ step' = "results"
    /\ hasLoggedRef' = FALSE
    /\ effectPending' = TRUE

RECURSIVE reduceScore(_, _)
reduceScore(data, acc) ==
    IF data = <<>> THEN acc ELSE reduceScore(Tail(data), acc + Head(data).score)

\* totalScore with the reduce seeded with 1 instead of 0.
totalScore_SeedOne == reduceScore(assessmentData, 1)

\* The score prop that the results case of getStepComponent passes to ResultsStep.
totalScore == reduceScore(assessmentData, 0)

----------------------------------------------------------------------------
\* UserInfoStep

\* The name effect, run when the watched name value becomes nameValue.
NameEffect(nameValue) ==
    IF trim(nameValue) # <<>>
    THEN /\ isTranslating' = TRUE
         /\ debounceTimeout' = <<nameValue>>
         /\ form' = [form EXCEPT !.name = nameValue]
    ELSE /\ isTranslating' = FALSE
         /\ debounceTimeout' = <<>>
         /\ form' = [form EXCEPT !.name = nameValue, !.name_hi = <<>>]

ChangeName(v) ==
    /\ route = "home"
    /\ step = "info"
    /\ v # form.name
    /\ NameEffect(v)
    /\ UNCHANGED <<appVars, districts, inflight, isSubmitted, assessVars, resultVars, envVars>>
    /\ UNCHANGED <<finalAssessmentCalls, certVars, sessVars, serviceVars>>

\* The debounce timer fires: the callback issues the fetch and awaits it.
DebounceFire ==
    /\ debounceTimeout # <<>>
    /\ InflightCount < MaxInflight
    /\ inflight' = [inflight EXCEPT ![debounceTimeout[1]] = @ + 1]
    /\ debounceTimeout' = <<>>
    /\ UNCHANGED <<appVars, form, districts, isTranslating, isSubmitted,
                   assessVars, resultVars, envVars>>
    /\ UNCHANGED <<finalAssessmentCalls, certVars, sessVars, serviceVars>>

\* The rest of the timer callback, for the request made with nameValue = text.
ApplyTransliteration(text, outcome) ==
    LET transliteration == transliterateRoute(text, outcome) IN
    IF outcome = "NETWORK_ERROR"
    THEN form' = [form EXCEPT !.name_hi = text]
    ELSE IF transliteration # <<>>
    THEN form' = [form EXCEPT !.name_hi = transliteration]
    ELSE form' = form

\* TransliterateResponse when the stored UserInfo is the form's live values object.
TransliterateResponse_PatchesUserData(text, outcome) ==
    /\ inflight[text] > 0
    /\ inflight' = [inflight EXCEPT ![text] = @ - 1]
    /\ ApplyTransliteration(text, outcome)
    /\ isTranslating' = IF step = "info" THEN FALSE ELSE isTranslating
    /\ userData' = IF userData = <<>> THEN userData
                   ELSE <<[userData[1] EXCEPT !.name_hi = form'.name_hi]>>
    /\ UNCHANGED <<step, lang, assessmentData, districts, debounceTimeout, isSubmitted,
                   assessVars, resultVars, envVars>>
    /\ UNCHANGED <<finalAssessmentCalls, certVars, sessVars, serviceVars>>

TransliterateResponse(text, outcome) ==
    /\ inflight[text] > 0
    /\ inflight' = [inflight EXCEPT ![text] = @ - 1]
    /\ ApplyTransliteration(text, outcome)
    /\ isTranslating' = IF step = "info" THEN FALSE ELSE isTranslating
    /\ UNCHANGED <<appVars, districts, debounceTimeout, isSubmitted,
                   assessVars, resultVars, envVars>>
    /\ UNCHANGED <<finalAssessmentCalls, certVars, sessVars, serviceVars>>

SetField(field, v) ==
    /\ route = "home"
    /\ step = "info"
    /\ form' = [form EXCEPT ![field] = v]
    /\ UNCHANGED <<appVars, districts, isTranslating, debounceTimeout, inflight, isSubmitted,
                   assessVars, resultVars, envVars>>
    /\ UNCHANGED <<finalAssessmentCalls, certVars, sessVars, serviceVars>>

ChangeNameHi(v) == SetField("name_hi", v)

ChangeAge(v) == SetField("age", <<v>>)

ChangeGender(v) == SetField("gender", v)

ChangeMobile(v) == SetField("mobile", v)

ChangeEmail(v) == SetField("email", v)

\* StateEffect without form.resetField("district").
StateEffect_NoReset(selectedState) ==
    /\ districts' = statesWithDistricts[selectedState]
    /\ form' = [form EXCEPT !.state = selectedState]

\* The state effect, run when the watched state value becomes selectedState.
StateEffect(selectedState) ==
    /\ districts' = statesWithDistricts[selectedState]
    /\ form' = [form EXCEPT !.state = selectedState, !.district = defaultValues.district]

SelectState(s) ==
    /\ route = "home"
    /\ step = "info"
    /\ s # form.state
    /\ StateEffect(s)
    /\ UNCHANGED <<appVars, isTranslating, debounceTimeout, inflight, isSubmitted,
                   assessVars, resultVars, envVars>>
    /\ UNCHANGED <<finalAssessmentCalls, certVars, sessVars, serviceVars>>

\* The district popover lists the districts state variable.
DistrictOptions == districts

SelectDistrict(d) ==
    /\ d \in DistrictOptions
    /\ SetField("district", d)

\* SubmitForm that also saves the accepted values to localStorage as a draft.
SubmitForm_SavesDraft ==
    /\ route = "home"
    /\ step = "info"
    /\ isSubmitted' = TRUE
    /\ IF formSchemaAccepts(form)
       THEN /\ handleInfoSubmit(form)
            /\ localStorage' = <<[userData |-> form]>>
       ELSE UNCHANGED <<userData, step, debounceTimeout, localStorage>>
    /\ UNCHANGED <<lang, assessmentData, form, districts, isTranslating, inflight,
                   assessVars, resultVars, sinkRequests, sinkStatus, toasts, route>>
    /\ UNCHANGED <<finalAssessmentCalls, certVars, sessVars, serviceVars>>

\* form.handleSubmit(handleFormSubmit): the resolver validates; only accepted
\* values reach handleFormSubmit, which calls onSubmit.
SubmitForm ==
    /\ route = "home"
    /\ step = "info"
    /\ isSubmitted' = TRUE
    /\ IF formSchemaAccepts(form)
       THEN handleInfoSubmit(form)
       ELSE UNCHANGED <<userData, step, debounceTimeout>>
    /\ UNCHANGED <<lang, assessmentData, form, districts, isTranslating, inflight,
                   assessVars, resultVars, envVars>>
    /\ UNCHANGED <<finalAssessmentCalls, certVars, sessVars, serviceVars>>

----------------------------------------------------------------------------
\* AssessmentStep

currentQuestion == questions[currentQuestionIndex + 1]

BeginAssessment ==
    /\ route = "home"
    /\ step = "assessment"
    /\ showInstructions
    /\ showInstructions' = FALSE
    /\ UNCHANGED <<appVars, infoVars, currentQuestionIndex, answers, selectedOption,
                   currentFeedback, resultVars, envVars>>
    /\ UNCHANGED <<finalAssessmentCalls, certVars, sessVars, serviceVars>>

\* handleOptionChange that records the answer as soon as an option is picked.
handleOptionChange_Records(value) ==
    /\ route = "home"
    /\ step = "assessment"
    /\ ~showInstructions
    /\ selectedOption' = value
    /\ currentFeedback' = getIndividualFeedback(currentQuestion.trait, parseInt(value), lang)
    /\ answers' = Append(answers,
                     [id |-> currentQuestion.id,
                      trait |-> currentQuestion.trait,
                      score |-> parseInt(value),
                      feedback |-> getIndividualFeedback(currentQuestion.trait, parseInt(value), "en")])
    /\ UNCHANGED <<appVars, infoVars, showInstructions, currentQuestionIndex,
                   resultVars, envVars>>
    /\ UNCHANGED <<finalAssessmentCalls, certVars, sessVars, serviceVars>>

handleOptionChange(value) ==
    /\ route = "home"
    /\ step = "assessment"
    /\ ~showInstructions
    /\ selectedOption' = value
    /\ currentFeedback' = getIndividualFeedback(currentQuestion.trait, parseInt(value), lang)
    /\ UNCHANGED <<appVars, infoVars, showInstructions, currentQuestionIndex, answers,
                   resultVars, envVars>>
    /\ UNCHANGED <<finalAssessmentCalls, certVars, sessVars, serviceVars>>

\* newAnswer with the feedback resolved in the display language.
newAnswer_DisplayLang ==
    [id |-> currentQuestion.id,
     trait |-> currentQuestion.trait,
     score |-> parseInt(selectedOption),
     feedback |-> getIndividualFeedback(currentQuestion.trait, parseInt(selectedOption), lang)]

\* newAnswer taking the option's position (0, 1, 2) for its score.
newAnswer_ZeroBased ==
    [id |-> currentQuestion.id,
     trait |-> currentQuestion.trait,
     score |-> parseInt(selectedOption) - 1,
     feedback |-> getIndividualFeedback(currentQuestion.trait, parseInt(selectedOption), "en")]

newAnswer ==
    [id |-> currentQuestion.id,
     trait |-> currentQuestion.trait,
     score |-> parseInt(selectedOption),
     feedback |-> getIndividualFeedback(currentQuestion.trait, parseInt(selectedOption), "en")]

\* handleNext storing only the new answer instead of appending it.
handleNext_OverwritesAnswers ==
    /\ route = "home"
    /\ step = "assessment"
    /\ ~showInstructions
    /\ IF selectedOption = null
       THEN /\ toasts' = toasts \cup {"Selection required"}
            /\ UNCHANGED <<appVars, assessVars, resultVars>>
       ELSE LET newAnswers == <<newAnswer>> IN
            /\ answers' = newAnswers
            /\ IF currentQuestionIndex < Len(questions) - 1
               THEN /\ currentQuestionIndex' = currentQuestionIndex + 1
                    /\ selectedOption' = null
                    /\ currentFeedback' = <<>>
                    /\ UNCHANGED <<appVars, resultVars>>
               ELSE /\ handleAssessmentComplete(newAnswers)
                    /\ UNCHANGED <<lang, userData, currentQuestionIndex, selectedOption,
                                   currentFeedback, effectRuns>>
            /\ UNCHANGED <<showInstructions, toasts>>
    /\ UNCHANGED <<infoVars, localStorage, sinkRequests, sinkStatus, route>>
    /\ UNCHANGED <<finalAssessmentCalls, certVars, sessVars, serviceVars>>

\* handleNext without the return after the toast: the question is skipped.
handleNext_NoReturn ==
    /\ route = "home"
    /\ step = "assessment"
    /\ ~showInstructions
    /\ IF selectedOption = null
       THEN /\ toasts' = toasts \cup {"Selection required"}
            /\ IF currentQuestionIndex < Len(questions) - 1
               THEN /\ currentQuestionIndex' = currentQuestionIndex + 1
                    /\ UNCHANGED <<appVars, resultVars>>
               ELSE /\ handleAssessmentComplete(answers)
                    /\ UNCHANGED <<lang, userData, currentQuestionIndex, effectRuns>>
            /\ UNCHANGED <<showInstructions, answers, selectedOption, currentFeedback>>
       ELSE LET newAnswers == Append(answers, newAnswer) IN
            /\ answers' = newAnswers
            /\ IF currentQuestionIndex < Len(questions) - 1
               THEN /\ currentQuestionIndex' = currentQuestionIndex + 1
                    /\ selectedOption' = null
                    /\ currentFeedback' = <<>>
                    /\ UNCHANGED <<appVars, resultVars>>
               ELSE /\ handleAssessmentComplete(newAnswers)
                    /\ UNCHANGED <<lang, userData, currentQuestionIndex, selectedOption,
                                   currentFeedback, effectRuns>>
            /\ UNCHANGED <<showInstructions, toasts>>
    /\ UNCHANGED <<infoVars, localStorage, sinkRequests, sinkStatus, route>>
    /\ UNCHANGED <<finalAssessmentCalls, certVars, sessVars, serviceVars>>

\* handleNext completing with the answers state, which lacks the last answer.
handleNext_StaleAnswers ==
    /\ route = "home"
    /\ step = "assessment"
    /\ ~showInstructions
    /\ IF selectedOption = null
       THEN /\ toasts' = toasts \cup {"Selection required"}
            /\ UNCHANGED <<appVars, assessVars, resultVars>>
       ELSE LET newAnswers == Append(answers, newAnswer) IN
            /\ answers' = newAnswers
            /\ IF currentQuestionIndex < Len(questions) - 1
               THEN /\ currentQuestionIndex' = currentQuestionIndex + 1
                    /\ selectedOption' = null
                    /\ currentFeedback' = <<>>
                    /\ UNCHANGED <<appVars, resultVars>>
               ELSE /\ handleAssessmentComplete(answers)
                    /\ UNCHANGED <<lang, userData, currentQuestionIndex, selectedOption,
                                   currentFeedback, effectRuns>>
            /\ UNCHANGED <<showInstructions, toasts>>
    /\ UNCHANGED <<infoVars, localStorage, sinkRequests, sinkStatus, route>>
    /\ UNCHANGED <<finalAssessmentCalls, certVars, sessVars, serviceVars>>

handleNext ==
    /\ route = "home"
    /\ step = "assessment"
    /\ ~showInstructions
    /\ IF selectedOption = null
       THEN /\ toasts' = toasts \cup {"Selection required"}
            /\ UNCHANGED <<appVars, assessVars, resultVars>>
       ELSE LET newAnswers == Append(answers, newAnswer) IN
            /\ answers' = newAnswers
            /\ IF currentQuestionIndex < Len(questions) - 1
               THEN /\ currentQuestionIndex' = currentQuestionIndex + 1
                    /\ selectedOption' = null
                    /\ currentFeedback' = <<>>
                    /\ UNCHANGED <<appVars, resultVars>>
               ELSE /\ handleAssessmentComplete(newAnswers)
                    /\ UNCHANGED <<lang, userData, currentQuestionIndex, selectedOption,
                                   currentFeedback, effectRuns>>
            /\ UNCHANGED <<showInstructions, toasts>>
    /\ UNCHANGED <<infoVars, localStorage, sinkRequests, sinkStatus, route>>
    /\ UNCHANGED <<finalAssessmentCalls, certVars, sessVars, serviceVars>>

----------------------------------------------------------------------------
\* ResultsStep

\* certificateData resolving the final text from the number of answers.
certificateData_ScoresAnswerCount(v) ==
    [userData |-> userData[1],
     assessmentData |-> assessmentData,
     finalAssessmentText |-> getFinalAssessment(getFinalFeedback(Len(assessmentData), "en"), "en", v)]

\* v is the phrasing drawn by the getFinalAssessment call of the object literal.
certificateData(v) ==
    [userData |-> userData[1],
     assessmentData |-> assessmentData,
     finalAssessmentText |-> getFinalAssessment(getFinalFeedback(totalScore, "en"), "en", v)]

submissionData(v) ==
    [name |-> userData[1].name,
     name_hi |-> userData[1].name_hi,
     age |-> userData[1].age,
     gender |-> userData[1].gender,
     mobile |-> userData[1].mobile,
     email |-> userData[1].email,
     countryCode |-> userData[1].countryCode,
     state |-> userData[1].state,
     district |-> userData[1].district,
     assessmentData |-> assessmentData,
     totalScore |-> totalScore,
     finalAssessmentText |-> getFinalAssessment(getFinalFeedback(totalScore, "en"), "en", v)]

\* LogOnce that leaves the effect in the catch block of the localStorage write.
LogOnce_StopsAfterStorageError(setItemThrows, v1, v2) ==
    /\ hasLoggedRef' = TRUE
    /\ IF setItemThrows
       THEN /\ localStorage' = localStorage
            /\ storedBy' = storedBy
            /\ toasts' = toasts \cup {"Could not save certificate"}
            /\ UNCHANGED <<sinkRequests, sinkStatus>>
            /\ finalAssessmentCalls' = finalAssessmentCalls + 1
       ELSE /\ localStorage' = <<certificateData(v1)>>
            /\ storedBy' = session
            /\ toasts' = toasts
            /\ sinkRequests' = Append(sinkRequests, submissionData(v2))
            /\ sinkStatus' = "pending"
            /\ finalAssessmentCalls' = finalAssessmentCalls + 2

\* The body of the effect past the hasLoggedRef guard: the certificate is written
\* to localStorage (setItem may throw) and logSubmission issues POST /api/log.
\* getFinalAssessment is called once for certificateData (drawing v1) and once
\* for submissionData (drawing v2).
LogOnce(setItemThrows, v1, v2) ==
    /\ hasLoggedRef' = TRUE
    /\ IF setItemThrows
       THEN /\ localStorage' = localStorage
            /\ storedBy' = storedBy
            /\ toasts' = toasts \cup {"Could not save certificate"}
       ELSE /\ localStorage' = <<certificateData(v1)>>
            /\ storedBy' = session
            /\ toasts' = toasts
    /\ sinkRequests' = Append(sinkRequests, submissionData(v2))
    /\ sinkStatus' = "pending"
    /\ finalAssessmentCalls' = finalAssessmentCalls + 2

\* ResultsEffect without the hasLoggedRef guard.
ResultsEffect_NoGuard ==
    /\ route = "home"
    /\ step = "results"
    /\ effectPending
    /\ effectPending' = FALSE
    /\ effectRuns' = effectRuns + 1
    /\ \E setItemThrows \in BOOLEAN, v1, v2 \in Phrasings : LogOnce(setItemThrows, v1, v2)
    /\ UNCHANGED <<appVars, infoVars, assessVars, route>>
    /\ UNCHANGED <<certVars, session, serviceVars>>

ResultsEffect ==
    /\ route = "home"
    /\ step = "results"
    /\ effectPending
    /\ effectPending' = FALSE
    /\ effectRuns' = effectRuns + 1
    /\ IF hasLoggedRef
       THEN UNCHANGED <<hasLoggedRef, localStorage, sinkRequests, sinkStatus, toasts,
                        finalAssessmentCalls, storedBy>>
       ELSE \E setItemThrows \in BOOLEAN, v1, v2 \in Phrasings : LogOnce(setItemThrows, v1, v2)
    /\ UNCHANGED <<appVars, infoVars, assessVars, route>>
    /\ UNCHANGED <<certVars, session, serviceVars>>

\* React runs the effect again: a dependency of the effect changed identity, or
\* the effect is re-invoked on the mounted component.
ResultsRerun ==
    /\ route = "home"
    /\ step = "results"
    /\ ~effectPending
    /\ effectRuns < MaxEffectRuns
    /\ effectPending' = TRUE
    /\ UNCHANGED <<appVars, infoVars, assessVars, hasLoggedRef, effectRuns, envVars>>
    /\ UNCHANGED <<finalAssessmentCalls, certVars, sessVars, serviceVars>>

SinkOutcomes == {"OK", "NOT_OK", "THROWS"}

\* SinkResponse that calls logSubmission again from its catch block.
SinkResponse_Retry(outcome) ==
    /\ sinkStatus = "pending"
    /\ IF outcome = "OK"
       THEN /\ sinkStatus' = "ok"
            /\ toasts' = toasts
            /\ sinkRequests' = sinkRequests
       ELSE /\ sinkStatus' = IF Len(sinkRequests) < 2 THEN "pending" ELSE "failed"
            /\ toasts' = toasts \cup {"Data Submission Failed"}
            /\ \E v \in Phrasings :
                  sinkRequests' = IF Len(sinkRequests) < 2
                                  THEN Append(sinkRequests, submissionData(v))
                                  ELSE sinkRequests
    /\ UNCHANGED <<appVars, infoVars, assessVars, resultVars, localStorage, route>>
    /\ UNCHANGED <<finalAssessmentCalls, certVars, sessVars, serviceVars>>

\* The continuation of logSubmission after await fetch.
SinkResponse(outcome) ==
    /\ sinkStatus = "pending"
    /\ IF outcome = "OK"
       THEN /\ sinkStatus' = "ok"
            /\ toasts' = toasts
       ELSE /\ sinkStatus' = "failed"
            /\ toasts' = toasts \cup {"Data Submission Failed"}
    /\ UNCHANGED <<appVars, infoVars, assessVars, resultVars, localStorage, sinkRequests, route>>
    /\ UNCHANGED <<finalAssessmentCalls, certVars, sessVars, serviceVars>>

handleViewCertificate ==
    /\ route = "home"
    /\ step = "results"
    /\ route' = "certificate"
    /\ UNCHANGED <<appVars, infoVars, assessVars, resultVars, localStorage, sinkRequests,
                   sinkStatus, toasts>>
    /\ UNCHANGED <<finalAssessmentCalls, certVars, sessVars, serviceVars>>

----------------------------------------------------------------------------
\* Certificate page

RECURSIVE filterNotCourage(_)
filterNotCourage(items) ==
    IF items = <<>> THEN <<>>
    ELSE IF Head(items).trait # "Courage"
         THEN <<Head(items)>> \o filterNotCourage(Tail(items))
         ELSE filterNotCourage(Tail(items))

\* What CertificateContent shows for data in language l: one entry per detailed
\* result, its text resolved by getIndividualFeedback, and the summary line.
CertificateContent(data, l) ==
    LET detailedResults == filterNotCourage(data.assessmentData) IN
    [detailedResults |->
        [k \in 1..Len(detailedResults) |->
            [trait |-> detailedResults[k].trait,
             score |-> detailedResults[k].score,
             text |-> getIndividualFeedback(detailedResults[k].trait, detailedResults[k].score, l)]],
     summary |-> IF l = "en" THEN data.finalAssessmentText
                 ELSE <<"t_hi.finalAssessment", data.finalAssessmentText>>]

\* Certificate renders the English and the Hindi content.
Certificate(data) == [l \in Languages |-> CertificateContent(data, l)]

\* The getIndividualFeedback calls of one render of Certificate.
CertificateFeedbackCalls(data) ==
    LET view == Certificate(data)
        RECURSIVE count(_)
        count(L) == IF L = {} THEN 0
                    ELSE LET l == CHOOSE l \in L : TRUE
                         IN Len(view[l].detailedResults) + count(L \ {l})
    IN  count(Languages)

\* JSON.parse of a stored text.
parseThrows(text) == text = malformedJson

\* CertificateMount that only logs a parse error.
CertificateMount_NoRedirectOnParseError ==
    /\ route = "certificate"
    /\ isLoading
    /\ isLoading' = FALSE
    /\ IF localStorage # <<>> /\ ~parseThrows(localStorage[1]) /\ localStorage[1] # jsonNull
       THEN /\ certData' = <<localStorage[1]>>
            /\ certificateFeedbackCalls' =
                  certificateFeedbackCalls + CertificateFeedbackCalls(localStorage[1])
            /\ route' = route
       ELSE /\ route' = IF localStorage = <<>> THEN "redirected" ELSE route
            /\ UNCHANGED <<certData, certificateFeedbackCalls>>
    /\ UNCHANGED <<appVars, infoVars, assessVars, resultVars, finalAssessmentCalls,
                   localStorage, sinkRequests, sinkStatus, toasts>>
    /\ UNCHANGED <<sessVars, serviceVars>>

\* The mount effect of CertificatePage and the render that follows it: a stored
\* text that parses to an object is rendered as the certificate; without a
\* stored text, or when JSON.parse throws, the page is replaced by the home
\* route; a stored null parses and leaves the skeleton on screen.
CertificateMount ==
    /\ route = "certificate"
    /\ isLoading
    /\ isLoading' = FALSE
    /\ IF localStorage # <<>> /\ ~parseThrows(localStorage[1])
       THEN IF localStorage[1] = jsonNull
            THEN UNCHANGED <<certData, certificateFeedbackCalls, route>>
            ELSE /\ certData' = <<localStorage[1]>>
                 /\ certificateFeedbackCalls' =
                       certificateFeedbackCalls + CertificateFeedbackCalls(localStorage[1])
                 /\ route' = route
       ELSE /\ route' = "redirected"
            /\ UNCHANGED <<certData, certificateFeedbackCalls>>
    /\ UNCHANGED <<appVars, infoVars, assessVars, resultVars, finalAssessmentCalls,
                   localStorage, sinkRequests, sinkStatus, toasts>>
    /\ UNCHANGED <<sessVars, serviceVars>>

----------------------------------------------------------------------------

\* The whole wizard, with one typical entry per PersonalInfo field.
Next ==
    \/ \E l \in Languages : handleLanguageSelect(l)
    \/ \E v \in WizardNameInputs : ChangeName(v)
    \/ DebounceFire
    \/ \E t \in RequestTexts, o \in FetchOutcomes : TransliterateResponse(t, o)
    \/ \E v \in WizardNameHiInputs : ChangeNameHi(v)
    \/ \E v \in WizardAgeInputs : ChangeAge(v)
    \/ \E v \in GenderInputs : ChangeGender(v)
    \/ \E v \in MobileInputs : ChangeMobile(v)
    \/ \E d \in UNION {statesWithDistricts[s] : s \in WizardStates} : SelectDistrict(d)
    \/ SubmitForm
    \/ BeginAssessment
    \/ \E v \in OptionValues : handleOptionChange(v)
    \/ handleNext
    \/ ResultsEffect
    \/ ResultsRerun
    \/ \E o \in SinkOutcomes : SinkResponse(o)
    \/ handleViewCertificate
    \/ CertificateMount

Spec == Init /\ [][Next]_vars

\* The PersonalInfo form up to its submission, with every kind of entry.
FormNext ==
    \/ \E l \in Languages : handleLanguageSelect(l)
    \/ \E v \in NameInputs : ChangeName(v)
    \/ DebounceFire
    \/ \E t \in RequestTexts, o \in FetchOutcomes : TransliterateResponse(t, o)
    \/ \E v \in NameHiInputs : ChangeNameHi(v)
    \/ \E v \in AgeInputs : ChangeAge(v)
    \/ \E v \in GenderInputs : ChangeGender(v)
    \/ \E v \in MobileInputs : ChangeMobile(v)
    \/ \E v \in EmailInputs : ChangeEmail(v)
    \/ \E s \in states : SelectState(s)
    \/ \E d \in UNION {statesWithDistricts[s] : s \in states} : SelectDistrict(d)
    \/ SubmitForm

FormSpec == Init /\ [][FormNext]_vars

----------------------------------------------------------------------------
\* Properties of the wizard

\* C1: while a question is shown with no option selected, no step (handleNext
\* included) adds an AnswerRecord, moves to another question or leaves the
\* assessment step; the only notice that can appear is "Selection required".
C1_NoSelectionNoAdvance ==
    [][(step = "assessment" /\ ~showInstructions /\ selectedOption = null)
        => /\ answers' = answers
           /\ currentQuestionIndex' = currentQuestionIndex
           /\ step' = step
           /\ assessmentData' = assessmentData
           /\ toasts' \subseteq toasts \cup {"Selection required"}]_vars

C1_Witness ==
    /\ step = "assessment"
    /\ selectedOption = null
    /\ currentQuestionIndex = NumQuestions - 1
    /\ Len(answers) = currentQuestionIndex
    /\ "Selection required" \in toasts

\* C2: POST /api/log is issued at most once in a session, and exactly once as
\* soon as the ResultsStep effect has run, however often the effect runs again.
C2_SinkCalledOnce ==
    /\ Len(sinkRequests) <= 1
    /\ (step = "results" /\ effectRuns >= 1) => Len(sinkRequests) = 1

C2_Witness ==
    /\ step = "results"
    /\ effectRuns >= 2
    /\ ~effectPending
    /\ Len(sinkRequests) = 1

\* C3: before the results step, localStorage holds no certificate data and no
\* request to the submission sink has been issued.
C3_NothingPersistedBeforeResults ==
    step # "results" => /\ localStorage = <<>>
                        /\ sinkRequests = <<>>
                        /\ sinkStatus = "none"

C3_Witness ==
    /\ step = "assessment"
    /\ Len(answers) = NumQuestions - 1
    /\ selectedOption # null
    /\ localStorage = <<>>
    /\ sinkRequests = <<>>

\* C4: in the results step the answer sequence holds exactly one record per
\* catalog question.
C4_ResultsHasAllAnswers ==
    step = "results" => Len(assessmentData) = Len(questions)

C4_Witness ==
    /\ step = "results"
    /\ hasLoggedRef
    /\ Len(assessmentData) = NumQuestions

\* The sum of the recorded scores, counted per score value.
ScoreSum(data) ==
    LET count(v) == Cardinality({i \in 1..Len(data) : data[i].score = v})
    IN  count(1) + 2 * count(2) + 3 * count(3)

\* C5: the totalScore passed to ResultsStep and sent to the sink is the sum of
\* the scores of the recorded answers.
C5_TotalIsSumOfScores ==
    /\ step = "results" =>
          /\ \A i \in 1..Len(assessmentData) : assessmentData[i].score \in {1, 2, 3}
          /\ totalScore = ScoreSum(assessmentData)
    /\ \A k \in 1..Len(sinkRequests) :
          /\ sinkRequests[k].assessmentData = assessmentData
          /\ sinkRequests[k].totalScore = ScoreSum(sinkRequests[k].assessmentData)

C5_Witness ==
    /\ Len(sinkRequests) = 1
    /\ sinkRequests[1].totalScore = 2 * NumQuestions
    /\ \E i, j \in 1..Len(assessmentData) : assessmentData[i].score # assessmentData[j].score

\* C6: every record sent to the sink has N <= totalScore <= 3N.
C6_TotalScoreInRange ==
    \A k \in 1..Len(sinkRequests) :
        /\ sinkRequests[k].totalScore >= NumQuestions
        /\ sinkRequests[k].totalScore <= 3 * NumQuestions

C6_Witness ==
    /\ Len(sinkRequests) = 1
    /\ sinkRequests[1].totalScore = 3 * NumQuestions

\* C9: once the sink call has failed, the wizard is still in the results step
\* with the certificate button usable, the failure notice is shown, what was
\* stored for the certificate is untouched, and no second request was issued.
C9_SinkFailureIsNotRetried ==
    ("Data Submission Failed" \in toasts \/ sinkStatus = "failed") =>
        /\ step = "results"
        /\ sinkStatus = "failed"
        /\ "Data Submission Failed" \in toasts
        /\ Len(sinkRequests) = 1
        /\ localStorage \in {<<>>} \cup {<<certificateData(v)>> : v \in Phrasings}
        /\ route = "home" => ENABLED handleViewCertificate

C9_Witness ==
    /\ sinkStatus = "failed"
    /\ route = "certificate"
    /\ \E v \in Phrasings : localStorage = <<certificateData(v)>>
    /\ effectRuns >= 2

----------------------------------------------------------------------------
\* Properties of the PersonalInfo form

\* The validation rules, field by field.
ValidUserInfo(u) ==
    /\ Len(u.name) >= 2
    /\ Len(u.name_hi) >= 1
    /\ u.age # <<>> /\ u.age[1] >= 1 /\ u.age[1] <= 120
    /\ u.gender \in {"Male", "Female", "Other", "Prefer not to say"}
    /\ Len(u.countryCode) >= 1
    /\ Len(u.mobile) >= 1
    /\ u.email = <<>> \/ \E i \in 1..Len(u.email) : u.email[i] = "@"
    /\ u.state \in states
    /\ u.district # undefined

C8_DistrictBelongsToState ==
    /\ step = "info" =>
          form.district = undefined \/ form.district \in statesWithDistricts[form.state]
    /\ userData # <<>> =>
          userData[1].district \in statesWithDistricts[userData[1].state]

C8_Witness ==
    /\ step = "assessment"
    /\ userData[1].state = "Maharashtra"
    /\ userData[1].district = "Mumbai"

\* C10: a transliteration response changes name_hi only if it answers the
\* request made for the current name value.
C10_OnlyLatestNameApplied ==
    [][\A t \in RequestTexts :
          (inflight'[t] < inflight[t] /\ form'.name_hi # form.name_hi) => t = form.name]_vars

----------------------------------------------------------------------------
\* C11: on PersonalInfo, when every field the user enters is valid and a
\* transliteration is scheduled, in flight or awaited, submitting advances to
\* the next step, whether or not the transliteration has filled name_hi.
C11_Original ==
    (/\ route = "home"
     /\ step = "info"
     /\ InvalidFields(form) \subseteq {"name_hi"}
     /\ (debounceTimeout # <<>> \/ InflightCount > 0 \/ isTranslating))
        => ENABLED (SubmitForm /\ step' = "assessment")

\* C12: when a transliteration request ends, with the Hindi text or
\* with any failure, name_hi becomes the Hindi text or the English text that
\* was sent.
C12_FailureAppliesEnglishText ==
    [][\A t \in RequestTexts :
          (step = "info" /\ inflight'[t] < inflight[t])
             => form'.name_hi \in {googleTransliteration(t), t}]_vars

\* C13: once UserInfo is stored it never changes; a transliteration response
\* arriving after PersonalInfo was left does not touch it.
C13_UserInfoImmutable ==
    [][userData # <<>> => userData' = userData]_vars

C13_Witness ==
    /\ step # "info"
    /\ userData # <<>>
    /\ InflightCount = 0
    /\ form.name_hi # userData[1].name_hi

PersistedRecordsEnglish(records) ==
    \A k \in 1..Len(records) :
        records[k].feedback = getIndividualFeedback(records[k].trait, records[k].score, "en")

PersistedFinalTextEnglish(records, text) ==
    \E v \in Phrasings : text = getFinalAssessment(getFinalFeedback(ScoreSum(records), "en"), "en", v)

\* C14: every feedback text kept in an answer record, and every final text
\* written to the certificate storage or sent to the sink, is the English
\* resolution of its trait and score (or total), whatever language is displayed.
C14_PersistedTextIsEnglish ==
    /\ PersistedRecordsEnglish(answers)
    /\ PersistedRecordsEnglish(assessmentData)
    /\ localStorage # <<>> =>
          /\ PersistedRecordsEnglish(localStorage[1].assessmentData)
          /\ PersistedFinalTextEnglish(localStorage[1].assessmentData,
                                       localStorage[1].finalAssessmentText)
    /\ \A k \in 1..Len(sinkRequests) :
          /\ PersistedRecordsEnglish(sinkRequests[k].assessmentData)
          /\ PersistedFinalTextEnglish(sinkRequests[k].assessmentData,
                                       sinkRequests[k].finalAssessmentText)

C14_Witness ==
    /\ lang = "hi"
    /\ localStorage # <<>>
    /\ Len(sinkRequests) = 1
    /\ Len(localStorage[1].assessmentData) = NumQuestions

\* C15: the final assessment text is resolved exactly once in a
\* session, when Results is entered.
C15_FinalAssessmentResolvedOnce ==
    /\ finalAssessmentCalls <= 1
    /\ hasLoggedRef => finalAssessmentCalls = 1

\* C16: rendering the certificate makes no call to the feedback
\* resolution.
C16_CertificateResolvesNoFeedback ==
    certificateFeedbackCalls = 0

\* C17: the answers grow only by appending one record at a time; during the
\* assessment their number is the current question index, and the k-th record
\* carries the id and trait of the k-th question, also when advancing is
\* invoked again right after an advance.
C17_OneRecordPerQuestion ==
    [][/\ Len(answers') \in {Len(answers), Len(answers) + 1}
       /\ SubSeq(answers', 1, Len(answers)) = answers
       /\ step' = "assessment" => Len(answers') = currentQuestionIndex'
       /\ \A k \in 1..Len(answers') :
             /\ answers'[k].id = questions[k].id
             /\ answers'[k].trait = questions[k].trait]_vars

C17_Witness ==
    /\ step = "assessment"
    /\ currentQuestionIndex = 2
    /\ Len(answers) = 2
    /\ selectedOption = null
    /\ "Selection required" \in toasts

\* C18: choosing or re-choosing an option changes only the selection and the
\* feedback shown; a record is appended only by advancing and carries the
\* score of the option selected at that moment.
C18_SelectionIsTransient ==
    [][/\ (step = "assessment" /\ selectedOption' # null /\ selectedOption' # selectedOption)
            => /\ currentFeedback' =
                     getIndividualFeedback(currentQuestion.trait, parseInt(selectedOption'), lang)
               /\ UNCHANGED <<appVars, infoVars, showInstructions, currentQuestionIndex,
                              answers, resultVars, envVars, finalAssessmentCalls, certVars,
                              sessVars, serviceVars>>
       /\ Len(answers') > Len(answers)
            => /\ selectedOption # null
               /\ answers'[Len(answers')].score = parseInt(selectedOption)]_vars

C18_Witness ==
    /\ step = "assessment"
    /\ lang = "hi"
    /\ Len(answers) = 1
    /\ answers[1].score = 3
    /\ selectedOption = "1"
    /\ currentFeedback = getIndividualFeedback(currentQuestion.trait, 1, "hi")

\* Position of the wizard in its order of steps.
StepRank ==
    CASE step = "language" -> 0
      [] step = "info" -> 1
      [] step = "assessment" /\ showInstructions -> 2
      [] step = "assessment" /\ ~showInstructions -> 3 + currentQuestionIndex
      [] step = "results" -> 3 + NumQuestions

\* C19: within a session the wizard never moves back and never skips: each
\* step either stays or moves to the next one, and Results is never left.
C19_StepsOnlyForward ==
    [][/\ StepRank' \in {StepRank, StepRank + 1}
       /\ step = "results" => step' = "results"]_vars

C19_Witness ==
    /\ step = "results"
    /\ route = "certificate"
    /\ certData # <<>>

BucketName(score) ==
    IF finalBucketsOf(score) = {} THEN "none"
    ELSE (CHOOSE b \in finalBucketsOf(score) : TRUE).name

C25_StoreAndSinkSameText ==
    localStorage # <<>> =>
        \A k \in 1..Len(sinkRequests) :
            sinkRequests[k].finalAssessmentText = localStorage[1].finalAssessmentText

\* C27: when the write to the certificate store fails the sink is still called,
\* and the step in which the sink call fails leaves the certificate store as
\* it was.
C27_SideEffectsIndependent ==
    [][/\ "Could not save certificate" \in toasts' => Len(sinkRequests') >= 1
       /\ hasLoggedRef' => Len(sinkRequests') >= 1
       /\ (sinkStatus = "pending" /\ sinkStatus' = "failed") => localStorage' = localStorage]_vars

C27_Witness ==
    /\ "Could not save certificate" \in toasts
    /\ localStorage = <<>>
    /\ Len(sinkRequests) = 1
    /\ sinkStatus = "failed"

----------------------------------------------------------------------------
\* POST /api/log

\* A process.env value is undefined when unset and may be the empty string;
\* if (x) and !x test its truthiness.
truthy(x) == x # undefined /\ x # ""

EnvValues(v) == {undefined, "", v}

\* The NULL of a database column.
sqlNull == <<"NULL">>

\* Request bodies: what logSubmission sends for each way of answering the
\* catalog, a body that is not JSON, and the JSON text null.
sentUser ==
    [name |-> <<"a", "b">>, name_hi |-> <<"A", "B">>, age |-> <<1>>, gender |-> "Male",
     countryCode |-> <<"+", "9", "1">>, mobile |-> <<"9">>, email |-> <<>>,
     state |-> "Madhya Pradesh", district |-> "Bhopal"]

sentAnswers(scores) ==
    [k \in 1..NumQuestions |->
        [id |-> questions[k].id,
         trait |-> questions[k].trait,
         score |-> scores[k],
         feedback |-> getIndividualFeedback(questions[k].trait, scores[k], "en")]]

sentSubmission(scores) ==
    [name |-> sentUser.name,
     name_hi |-> sentUser.name_hi,
     age |-> sentUser.age,
     gender |-> sentUser.gender,
     mobile |-> sentUser.mobile,
     email |-> sentUser.email,
     countryCode |-> sentUser.countryCode,
     state |-> sentUser.state,
     district |-> sentUser.district,
     assessmentData |-> sentAnswers(scores),
     totalScore |-> reduceScore(sentAnswers(scores), 0),
     finalAssessmentText |->
        getFinalAssessment(getFinalFeedback(reduceScore(sentAnswers(scores), 0), "en"),
                           "en", "first")]

LogBodies ==
    {sentSubmission(scores) : scores \in [1..NumQuestions -> {1, 2, 3}]}
        \cup {malformedJson, jsonNull}

\* data.assessmentData?.find((a) => a.trait === trait)?.score ?? 0
RECURSIVE findScore(_, _)
findScore(items, trait) ==
    IF items = <<>> THEN 0
    ELSE IF Head(items).trait = trait THEN Head(items).score
         ELSE findScore(Tail(items), trait)

\* insertedRow writing the resilience score into the empathy column.
insertedRow_EmpathyFromResilience(data) ==
    [name |-> data.name,
     name_hi |-> data.name_hi,
     age |-> data.age,
     gender |-> data.gender,
     country_code |-> IF data.countryCode = <<>> THEN <<"+", "9", "1">> ELSE data.countryCode,
     mobile |-> data.mobile,
     email |-> IF data.email = <<>> THEN sqlNull ELSE data.email,
     state |-> data.state,
     district |-> data.district,
     total_score |-> data.totalScore,
     final_assessment |-> data.finalAssessmentText,
     gratitude_score |-> findScore(data.assessmentData, "Gratitude"),
     resilience_score |-> findScore(data.assessmentData, "Resilience"),
     empathy_score |-> findScore(data.assessmentData, "Resilience"),
     sociability_score |-> findScore(data.assessmentData, "Sociability"),
     social_cognition_score |-> findScore(data.assessmentData, "Social Cognition"),
     courage_score |-> findScore(data.assessmentData, "Courage"),
     assessment_data |-> data.assessmentData,
     feedback_comments |->
        [k \in 1..Len(data.assessmentData) |->
            [trait |-> data.assessmentData[k].trait,
             feedback |-> data.assessmentData[k].feedback]]]

\* The row that saveAssessmentToSupabase passes to insert.
insertedRow(data) ==
    [name |-> data.name,
     name_hi |-> data.name_hi,
     age |-> data.age,
     gender |-> data.gender,
     country_code |-> IF data.countryCode = <<>> THEN <<"+", "9", "1">> ELSE data.countryCode,
     mobile |-> data.mobile,
     email |-> IF data.email = <<>> THEN sqlNull ELSE data.email,
     state |-> data.state,
     district |-> data.district,
     total_score |-> data.totalScore,
     final_assessment |-> data.finalAssessmentText,
     gratitude_score |-> findScore(data.assessmentData, "Gratitude"),
     resilience_score |-> findScore(data.assessmentData, "Resilience"),
     empathy_score |-> findScore(data.assessmentData, "Empathy"),
     sociability_score |-> findScore(data.assessmentData, "Sociability"),
     social_cognition_score |-> findScore(data.assessmentData, "Social Cognition"),
     courage_score |-> findScore(data.assessmentData, "Courage"),
     assessment_data |-> data.assessmentData,
     feedback_comments |->
        [k \in 1..Len(data.assessmentData) |->
            [trait |-> data.assessmentData[k].trait,
             feedback |-> data.assessmentData[k].feedback]]]

\* What the insert's await yields: the inserted rows, an error object, or a
\* rejected promise.
InsertOutcomes == {"inserted", "error", "rejects"}

\* saveAssessmentToSupabase: the rows returned, or the message of the Error thrown.
saveAssessmentToSupabase(data, outcome) ==
    IF data = jsonNull
    THEN [threw |-> TRUE, message |-> "Cannot read properties of null", rows |-> <<>>]
    ELSE CASE outcome = "inserted" ->
                [threw |-> FALSE, message |-> "", rows |-> <<insertedRow(data)>>]
           [] outcome = "error" ->
                [threw |-> TRUE, message |-> "Supabase insert failed: message", rows |-> <<>>]
           [] outcome = "rejects" ->
                [threw |-> TRUE, message |-> "fetch failed", rows |-> <<>>]

\* The failure response of the catch block of POST.
logFailure(details) ==
    [status |-> 500,
     body |-> [success |-> FALSE, error |-> "Failed to submit assessment", details |-> details]]

\* POST of the log route: the responses it sends and the rows it has inserted.
logPOST(body, outcome) ==
    IF body = malformedJson
    THEN [responses |-> <<logFailure("Unexpected token")>>, rows |-> <<>>]
    ELSE IF ~truthy(logEnv.NEXT_PUBLIC_SUPABASE_URL) \/ ~truthy(logEnv.SUPABASE_SERVICE_ROLE_KEY)
    THEN [responses |->
             <<[status |-> 500,
                body |-> [error |-> "Server configuration error",
                          details |-> "Missing required Supabase credentials"]]>>,
          rows |-> <<>>]
    ELSE LET saved == saveAssessmentToSupabase(body, outcome) IN
         IF saved.threw
         THEN [responses |-> <<logFailure(saved.message)>>, rows |-> <<>>]
         ELSE [responses |->
                  <<[status |-> 200,
                     body |-> [success |-> TRUE,
                               message |-> "Assessment submitted successfully",
                               data |-> saved.rows]]>>,
               rows |-> saved.rows]

\* One request to /api/log, from its arrival to its response.
LogRequest(body, outcome) ==
    /\ logBody' = <<body>>
    /\ logResponses' = logPOST(body, outcome).responses
    /\ dbRows' = logPOST(body, outcome).rows
    /\ UNCHANGED <<appVars, infoVars, assessVars, resultVars, envVars, finalAssessmentCalls,
                   certVars, sessVars, printVars, logEnv, kaVars, migVars>>

LogInit ==
    /\ HomeMounted
    /\ PrintIdle
    /\ LogIdle
    /\ logEnv \in [NEXT_PUBLIC_SUPABASE_URL : EnvValues("url"),
                   SUPABASE_SERVICE_ROLE_KEY : EnvValues("service")]
    /\ KeepAliveIdle
    /\ kaEnv = [CRON_SECRET |-> "s1", NEXT_PUBLIC_SUPABASE_URL |-> "url",
                SUPABASE_SECRET_KEY |-> "secret", SUPABASE_SERVICE_ROLE_KEY |-> "service",
                SUPABASE_PUBLISHABLE_KEY |-> "publishable",
                NEXT_PUBLIC_SUPABASE_ANON_KEY |-> "anon"]
    /\ MigrateIdle

LogNext == \E body \in LogBodies, outcome \in InsertOutcomes : LogRequest(body, outcome)

LogSpec == LogInit /\ [][LogNext]_vars

\* C21: a handled request has exactly one response: 200 with success true and
\* the inserted rows when the insert succeeded, and otherwise 500 with
\* success false, error and details.
C21_OneResponsePerRequest ==
    logBody # <<>> =>
        /\ Len(logResponses) = 1
        /\ IF dbRows # <<>>
           THEN /\ logResponses[1].status = 200
                /\ "success" \in DOMAIN logResponses[1].body
                /\ logResponses[1].body.success = TRUE
                /\ logResponses[1].body.data = dbRows
           ELSE /\ logResponses[1].status = 500
                /\ {"success", "error", "details"} \subseteq DOMAIN logResponses[1].body
                /\ logResponses[1].body.success = FALSE

TraitColumns(row) ==
    [t \in {Traits[i] : i \in 1..Len(Traits)} |->
        CASE t = "Gratitude" -> row.gratitude_score
          [] t = "Resilience" -> row.resilience_score
          [] t = "Empathy" -> row.empathy_score
          [] t = "Sociability" -> row.sociability_score
          [] t = "Social Cognition" -> row.social_cognition_score
          [] t = "Courage" -> row.courage_score]

----------------------------------------------------------------------------
\* Keep-alive: the cron route and the standalone script

KeyVariables ==
    <<"SUPABASE_SECRET_KEY", "SUPABASE_SERVICE_ROLE_KEY", "SUPABASE_PUBLISHABLE_KEY",
      "NEXT_PUBLIC_SUPABASE_ANON_KEY">>

KeepAliveEnvs ==
    [CRON_SECRET : EnvValues("s1"),
     NEXT_PUBLIC_SUPABASE_URL : EnvValues("url"),
     SUPABASE_SECRET_KEY : EnvValues("secret"),
     SUPABASE_SERVICE_ROLE_KEY : EnvValues("service"),
     SUPABASE_PUBLISHABLE_KEY : EnvValues("publishable"),
     NEXT_PUBLIC_SUPABASE_ANON_KEY : EnvValues("anon")]

missingKey == [threw |-> TRUE, key |-> "", type |-> "Missing Supabase key"]

\* selectSupabaseKey trying the service role key before the secret key.
selectSupabaseKey_ServiceRoleFirst ==
    IF truthy(kaEnv.SUPABASE_SERVICE_ROLE_KEY)
    THEN [threw |-> FALSE, key |-> kaEnv.SUPABASE_SERVICE_ROLE_KEY, type |-> "service_role"]
    ELSE IF truthy(kaEnv.SUPABASE_SECRET_KEY)
    THEN [threw |-> FALSE, key |-> kaEnv.SUPABASE_SECRET_KEY, type |-> "secret"]
    ELSE IF truthy(kaEnv.SUPABASE_PUBLISHABLE_KEY)
    THEN [threw |-> FALSE, key |-> kaEnv.SUPABASE_PUBLISHABLE_KEY, type |-> "publishable"]
    ELSE IF truthy(kaEnv.NEXT_PUBLIC_SUPABASE_ANON_KEY)
    THEN [threw |-> FALSE, key |-> kaEnv.NEXT_PUBLIC_SUPABASE_ANON_KEY, type |-> "anon"]
    ELSE missingKey

\* selectSupabaseKey of the cron route.
selectSupabaseKey ==
    IF truthy(kaEnv.SUPABASE_SECRET_KEY)
    THEN [threw |-> FALSE, key |-> kaEnv.SUPABASE_SECRET_KEY, type |-> "secret"]
    ELSE IF truthy(kaEnv.SUPABASE_SERVICE_ROLE_KEY)
    THEN [threw |-> FALSE, key |-> kaEnv.SUPABASE_SERVICE_ROLE_KEY, type |-> "service_role"]
    ELSE IF truthy(kaEnv.SUPABASE_PUBLISHABLE_KEY)
    THEN [threw |-> FALSE, key |-> kaEnv.SUPABASE_PUBLISHABLE_KEY, type |-> "publishable"]
    ELSE IF truthy(kaEnv.NEXT_PUBLIC_SUPABASE_ANON_KEY)
    THEN [threw |-> FALSE, key |-> kaEnv.NEXT_PUBLIC_SUPABASE_ANON_KEY, type |-> "anon"]
    ELSE missingKey

\* selectSupabaseKey of the keep-alive script.
scriptSelectSupabaseKey ==
    IF truthy(kaEnv.SUPABASE_SECRET_KEY)
    THEN [threw |-> FALSE, key |-> kaEnv.SUPABASE_SECRET_KEY, type |-> "secret"]
    ELSE IF truthy(kaEnv.SUPABASE_SERVICE_ROLE_KEY)
    THEN [threw |-> FALSE, key |-> kaEnv.SUPABASE_SERVICE_ROLE_KEY, type |-> "service_role"]
    ELSE IF truthy(kaEnv.SUPABASE_PUBLISHABLE_KEY)
    THEN [threw |-> FALSE, key |-> kaEnv.SUPABASE_PUBLISHABLE_KEY, type |-> "publishable"]
    ELSE IF truthy(kaEnv.NEXT_PUBLIC_SUPABASE_ANON_KEY)
    THEN [threw |-> FALSE, key |-> kaEnv.NEXT_PUBLIC_SUPABASE_ANON_KEY, type |-> "anon"]
    ELSE missingKey

\* What the count query's await yields.
QueryOutcomes == {"count", "error"}

\* Values of the Authorization header; headers.get gives null when it is absent.
AuthHeaders == {null, "Bearer s1", "Bearer s2", "bearer s1", "s1", "Bearer ", "Bearer s1 "}

Methods == {"GET", "POST"}

keepAliveFailure(message) ==
    [status |-> 500, body |-> [success |-> FALSE, error |-> message]]

\* GET past its authorization check: the response and the keys of the queries made.
keepAliveQuery(outcome) ==
    IF ~truthy(kaEnv.NEXT_PUBLIC_SUPABASE_URL)
    THEN [response |-> keepAliveFailure("Missing NEXT_PUBLIC_SUPABASE_URL"), queries |-> <<>>]
    ELSE IF selectSupabaseKey.threw
    THEN [response |-> keepAliveFailure(selectSupabaseKey.type), queries |-> <<>>]
    ELSE IF outcome = "error"
    THEN [response |-> keepAliveFailure("Database query failed"),
          queries |-> <<selectSupabaseKey.key>>]
    ELSE [response |-> [status |-> 200, body |-> [success |-> TRUE, error |-> ""]],
          queries |-> <<selectSupabaseKey.key>>]

keepAliveGET(authHeader, outcome) ==
    IF truthy(kaEnv.CRON_SECRET) /\ authHeader # "Bearer " \o kaEnv.CRON_SECRET
    THEN [response |-> [status |-> 401, body |-> [error |-> "Unauthorized"]],
          queries |-> <<>>]
    ELSE keepAliveQuery(outcome)

\* POST that runs the query without the authorization check of GET.
keepAlivePOST_SkipsAuthorization(authHeader, outcome) == keepAliveQuery(outcome)

\* POST returns GET(request).
keepAlivePOST(authHeader, outcome) == keepAliveGET(authHeader, outcome)

\* One request to the keep-alive route.
KeepAliveRequest(method, authHeader, outcome) ==
    LET handled == IF method = "GET" THEN keepAliveGET(authHeader, outcome)
                   ELSE keepAlivePOST(authHeader, outcome)
    IN  /\ kaRequest' = <<[method |-> method, authorization |-> authHeader]>>
        /\ kaResponses' = <<handled.response>>
        /\ kaQueries' = handled.queries
        /\ UNCHANGED <<appVars, infoVars, assessVars, resultVars, envVars,
                       finalAssessmentCalls, certVars, sessVars, printVars, logVars, kaEnv,
                       scriptResult, migVars>>

\* One run of the keep-alive script: keepSupabaseAlive and the exit code.
keepSupabaseAlive(outcome) ==
    IF ~truthy(kaEnv.NEXT_PUBLIC_SUPABASE_URL)
    THEN [success |-> FALSE, queries |-> <<>>, exit |-> 1]
    ELSE IF scriptSelectSupabaseKey.threw
    THEN [success |-> FALSE, queries |-> <<>>, exit |-> 1]
    ELSE IF outcome = "error"
    THEN [success |-> FALSE, queries |-> <<scriptSelectSupabaseKey.key>>, exit |-> 1]
    ELSE [success |-> TRUE, queries |-> <<scriptSelectSupabaseKey.key>>, exit |-> 0]

KeepAliveScript(outcome) ==
    /\ scriptResult' = <<keepSupabaseAlive(outcome)>>
    /\ UNCHANGED <<appVars, infoVars, assessVars, resultVars, envVars, finalAssessmentCalls,
                   certVars, sessVars, printVars, logVars, kaEnv, kaRequest, kaResponses,
                   kaQueries, migVars>>

KeepAliveInit ==
    /\ HomeMounted
    /\ PrintIdle
    /\ LogIdle
    /\ logEnv = [NEXT_PUBLIC_SUPABASE_URL |-> "url", SUPABASE_SERVICE_ROLE_KEY |-> "service"]
    /\ KeepAliveIdle
    /\ kaEnv \in KeepAliveEnvs
    /\ MigrateIdle

KeepAliveNext ==
    \/ \E m \in Methods, h \in AuthHeaders, o \in QueryOutcomes : KeepAliveRequest(m, h, o)
    \/ \E o \in QueryOutcomes : KeepAliveScript(o)

KeepAliveSpec == KeepAliveInit /\ [][KeepAliveNext]_vars

ConfiguredKeys == {i \in 1..Len(KeyVariables) : truthy(kaEnv[KeyVariables[i]])}

FirstConfiguredKey ==
    kaEnv[KeyVariables[CHOOSE i \in ConfiguredKeys : \A j \in ConfiguredKeys : i <= j]]

\* C23: for every combination of the four key variables, the selection yields
\* the configured key of highest priority (secret, service role, publishable,
\* anon) and fails exactly when none is configured; the route and the script
\* select, and query with, the same key.
C23_KeyPriority ==
    /\ (kaRequest # <<>> \/ scriptResult # <<>>) =>
          /\ selectSupabaseKey.threw <=> ConfiguredKeys = {}
          /\ ConfiguredKeys # {} => selectSupabaseKey.key = FirstConfiguredKey
          /\ scriptSelectSupabaseKey = selectSupabaseKey
    /\ kaQueries # <<>> => kaQueries = <<FirstConfiguredKey>>
    /\ (scriptResult # <<>> /\ scriptResult[1].queries # <<>>)
          => scriptResult[1].queries = <<FirstConfiguredKey>>

C23_Witness ==
    /\ kaEnv.SUPABASE_SECRET_KEY = undefined
    /\ kaEnv.SUPABASE_SERVICE_ROLE_KEY = ""
    /\ kaEnv.SUPABASE_PUBLISHABLE_KEY = "publishable"
    /\ kaEnv.NEXT_PUBLIC_SUPABASE_ANON_KEY = "anon"
    /\ kaQueries = <<"publishable">>
    /\ scriptResult # <<>>
    /\ scriptResult[1].queries = <<"publishable">>

----------------------------------------------------------------------------
\* Migration script: migrateData

BATCH_SIZE == 100
\* Largest Firestore snapshot that is explored.
MaxDocuments == 250

Min(a, b) == IF a < b THEN a ELSE b

\* What the await of one batch insert yields.
BatchOutcomes == {"inserted", "error", "throws"}

\* migrateData up to the batch loop: the services are initialised, the snapshot
\* is fetched and its documents are transformed (a document whose transform
\* throws is left out). An empty snapshot ends the run, an initialisation error
\* ends the process.
MigrateStart(credentials, size, untransformed) ==
    /\ migratePhase = "idle"
    /\ untransformed <= size
    /\ IF ~credentials
       THEN /\ migratePhase' = "exit 1"
            /\ UNCHANGED <<snapshotSize, documentsToMigrate>>
       ELSE /\ snapshotSize' = size
            /\ documentsToMigrate' = size - untransformed
            /\ migratePhase' = IF size = 0 THEN "done" ELSE "loop"
    /\ UNCHANGED <<batchStart, batches, successCount, errorCount>>
    /\ UNCHANGED <<appVars, infoVars, assessVars, resultVars, envVars, finalAssessmentCalls,
                   certVars, sessVars, printVars, logVars, kaVars>>

\* MigrateBatch that leaves the loop after a batch that failed.
MigrateBatch_StopsOnError(outcome) ==
    /\ migratePhase = "loop"
    /\ batchStart < documentsToMigrate
    /\ LET batch == [from |-> batchStart,
                     to |-> Min(batchStart + BATCH_SIZE, documentsToMigrate),
                     outcome |-> outcome]
       IN  /\ batches' = Append(batches, batch)
           /\ IF outcome = "inserted"
              THEN /\ successCount' = successCount + (batch.to - batch.from)
                   /\ errorCount' = errorCount
                   /\ migratePhase' = migratePhase
              ELSE /\ errorCount' = errorCount + (batch.to - batch.from)
                   /\ successCount' = successCount
                   /\ migratePhase' = "done"
    /\ batchStart' = batchStart + BATCH_SIZE
    /\ UNCHANGED <<snapshotSize, documentsToMigrate>>
    /\ UNCHANGED <<appVars, infoVars, assessVars, resultVars, envVars, finalAssessmentCalls,
                   certVars, sessVars, printVars, logVars, kaVars>>

\* One iteration of the for loop: the batch is documentsToMigrate.slice(i, i +
\* BATCH_SIZE), its insert is awaited and counted, then i += BATCH_SIZE.
MigrateBatch(outcome) ==
    /\ migratePhase = "loop"
    /\ batchStart < documentsToMigrate
    /\ LET batch == [from |-> batchStart,
                     to |-> Min(batchStart + BATCH_SIZE, documentsToMigrate),
                     outcome |-> outcome]
       IN  /\ batches' = Append(batches, batch)
           /\ IF outcome = "inserted"
              THEN /\ successCount' = successCount + (batch.to - batch.from)
                   /\ errorCount' = errorCount
              ELSE /\ errorCount' = errorCount + (batch.to - batch.from)
                   /\ successCount' = successCount
    /\ batchStart' = batchStart + BATCH_SIZE
    /\ UNCHANGED <<snapshotSize, documentsToMigrate, migratePhase>>
    /\ UNCHANGED <<appVars, infoVars, assessVars, resultVars, envVars, finalAssessmentCalls,
                   certVars, sessVars, printVars, logVars, kaVars>>

\* The loop condition fails: the summary is printed and migrateData returns.
MigrateSummary ==
    /\ migratePhase = "loop"
    /\ ~(batchStart < documentsToMigrate)
    /\ migratePhase' = "done"
    /\ UNCHANGED <<snapshotSize, documentsToMigrate, batchStart, batches, successCount,
                   errorCount>>
    /\ UNCHANGED <<appVars, infoVars, assessVars, resultVars, envVars, finalAssessmentCalls,
                   certVars, sessVars, printVars, logVars, kaVars>>

MigrateInit ==
    /\ HomeMounted
    /\ PrintIdle
    /\ LogIdle
    /\ logEnv = [NEXT_PUBLIC_SUPABASE_URL |-> "url", SUPABASE_SERVICE_ROLE_KEY |-> "service"]
    /\ KeepAliveIdle
    /\ kaEnv = [CRON_SECRET |-> "s1", NEXT_PUBLIC_SUPABASE_URL |-> "url",
                SUPABASE_SECRET_KEY |-> "secret", SUPABASE_SERVICE_ROLE_KEY |-> "service",
                SUPABASE_PUBLISHABLE_KEY |-> "publishable",
                NEXT_PUBLIC_SUPABASE_ANON_KEY |-> "anon"]
    /\ MigrateIdle

MigrateNext ==
    \/ \E credentials \in BOOLEAN, size \in 0..MaxDocuments, untransformed \in {0, 1} :
          MigrateStart(credentials, size, untransformed)
    \/ \E o \in BatchOutcomes : MigrateBatch(o)
    \/ MigrateSummary

\* Every awaited call of the script is answered, so the script keeps running
\* until it returns or exits.
MigrateSpec == MigrateInit /\ [][MigrateNext]_vars /\ WF_vars(MigrateNext)

\* The batches made so far hold documents 1..Min(batchStart, documentsToMigrate),
\* each document in one batch, each batch with 1..BATCH_SIZE documents, and
\* every document batched so far is counted once.
BatchesPartition ==
    /\ \A k \in 1..Len(batches) :
          /\ batches[k].to - batches[k].from >= 1
          /\ batches[k].to - batches[k].from <= BATCH_SIZE
    /\ \A d \in 1..Min(batchStart, documentsToMigrate) :
          Cardinality({k \in 1..Len(batches) : batches[k].from < d /\ d <= batches[k].to}) = 1
    /\ \A k \in 1..Len(batches) : batches[k].to <= Min(batchStart, documentsToMigrate)
    /\ successCount + errorCount = Min(batchStart, documentsToMigrate)

\* C24: every transformed document is in exactly one batch of at most
\* BATCH_SIZE records, batches after a failed one are still inserted, the run
\* ends, and at its end successCount + errorCount is the number of transformed
\* documents.
C24_MigrationBatches ==
    /\ [](/\ BatchesPartition
          /\ migratePhase = "done" =>
                /\ batchStart >= documentsToMigrate
                /\ successCount + errorCount = documentsToMigrate)
    /\ <>(migratePhase \in {"done", "exit 1"})

C24_Witness ==
    /\ migratePhase = "done"
    /\ Len(batches) = 3
    /\ batches[1].outcome = "throws"
    /\ batches[2].outcome = "error"
    /\ batches[3].outcome = "inserted"
    /\ batches[3].to - batches[3].from < BATCH_SIZE
    /\ successCount > 0
    /\ successCount + errorCount = documentsToMigrate

----------------------------------------------------------------------------
\* CertificatePage: printing and leaving

\* Print requests that are explored on one page.
MaxPrints == 3
\* Wizard sessions that are explored in one browser.
MaxSessions == 2

PrintModes == {"all", "en", "hi"}

printModeClass(mode) == "print-mode-" \o mode

Range(f) == {f[i] : i \in DOMAIN f}

\* The certificate and its buttons are on screen.
CertificateRendered == route = "certificate" /\ ~isLoading /\ certData # <<>>

\* Dispatch of beforeprint: every registered onBeforePrint adds its class.
fireBeforePrint(listeners) == bodyClasses \cup {printModeClass(m) : m \in Range(listeners)}

\* handlePrint(mode) up to the pause of window.print(): both listeners are
\* added, print() fires beforeprint and the print dialog opens. The page takes
\* no input while the dialog is open.
handlePrint(mode) ==
    /\ CertificateRendered
    /\ printing = <<>>
    /\ Len(printLog) < MaxPrints
    /\ beforeprint' = Append(beforeprint, mode)
    /\ afterprint' = Append(afterprint, mode)
    /\ bodyClasses' = fireBeforePrint(Append(beforeprint, mode))
    /\ printing' = <<"handlePrint">>
    /\ printLog' = Append(printLog, mode)
    /\ UNCHANGED <<appVars, infoVars, assessVars, resultVars, envVars, finalAssessmentCalls,
                   certVars, sessVars, logVars, kaVars, migVars>>

\* The user prints from the browser's menu: beforeprint is fired without a
\* handlePrint call.
BrowserPrint ==
    /\ CertificateRendered
    /\ printing = <<>>
    /\ Len(printLog) < MaxPrints
    /\ bodyClasses' = fireBeforePrint(beforeprint)
    /\ printing' = <<"browser">>
    /\ printLog' = Append(printLog, "menu")
    /\ UNCHANGED <<beforeprint, afterprint>>
    /\ UNCHANGED <<appVars, infoVars, assessVars, resultVars, envVars, finalAssessmentCalls,
                   certVars, sessVars, logVars, kaVars, migVars>>

\* AfterPrint whose onAfterPrint leaves the two listeners registered.
AfterPrint_KeepsListeners ==
    /\ printing # <<>>
    /\ printing' = <<>>
    /\ bodyClasses' = bodyClasses \ {printModeClass(m) : m \in Range(afterprint)}
    /\ UNCHANGED <<beforeprint, afterprint>>
    /\ printLog' = printLog
    /\ UNCHANGED <<appVars, infoVars, assessVars, resultVars, envVars, finalAssessmentCalls,
                   certVars, sessVars, logVars, kaVars, migVars>>

\* The dialog closes and afterprint is fired: every registered onAfterPrint
\* removes its class and the two listeners of its request.
AfterPrint ==
    /\ printing # <<>>
    /\ printing' = <<>>
    /\ bodyClasses' = bodyClasses \ {printModeClass(m) : m \in Range(afterprint)}
    /\ beforeprint' = <<>>
    /\ afterprint' = <<>>
    /\ printLog' = printLog
    /\ UNCHANGED <<appVars, infoVars, assessVars, resultVars, envVars, finalAssessmentCalls,
                   certVars, sessVars, logVars, kaVars, migVars>>

\* handleHome: router.push('/') unmounts the page and mounts a new wizard, the
\* next session of this browser; localStorage and the requests already sent
\* stay as they are.
handleHome ==
    /\ CertificateRendered
    /\ printing = <<>>
    /\ session < MaxSessions
    /\ session' = session + 1
    /\ route' = "home"
    /\ step' = "language"
    /\ lang' = "en"
    /\ userData' = <<>>
    /\ assessmentData' = <<>>
    /\ form' = defaultValues
    /\ districts' = {}
    /\ isTranslating' = FALSE
    /\ debounceTimeout' = <<>>
    /\ inflight' = [t \in RequestTexts |-> 0]
    /\ isSubmitted' = FALSE
    /\ showInstructions' = TRUE
    /\ currentQuestionIndex' = 0
    /\ answers' = <<>>
    /\ selectedOption' = null
    /\ currentFeedback' = <<>>
    /\ hasLoggedRef' = FALSE
    /\ effectPending' = FALSE
    /\ effectRuns' = 0
    /\ finalAssessmentCalls' = 0
    /\ isLoading' = TRUE
    /\ certData' = <<>>
    /\ sinkStatus' = "none"
    /\ UNCHANGED <<localStorage, storedBy, sinkRequests, toasts, certificateFeedbackCalls,
                   serviceVars>>

\* Certificate data as a finished session stores it.
storedCertificate(scores, v) ==
    [userData |-> sentUser,
     assessmentData |-> sentAnswers(scores),
     finalAssessmentText |->
        getFinalAssessment(getFinalFeedback(reduceScore(sentAnswers(scores), 0), "en"), "en", v)]

\* What the key 'anandakAssessmentCertificate' may hold when /certificate is
\* opened: nothing, a text that is not JSON, the text null, or a certificate.
StoredTexts ==
    {<<>>, <<malformedJson>>, <<jsonNull>>}
        \cup {<<storedCertificate([k \in 1..NumQuestions |-> score], v)>> :
                 score \in {1, 3}, v \in Phrasings}

\* /certificate opened in a browser whose store holds any of StoredTexts.
CertInit ==
    /\ WizardFresh
    /\ CertificateUnmounted
    /\ localStorage \in StoredTexts
    /\ sinkRequests = <<>>
    /\ sinkStatus = "none"
    /\ toasts = {}
    /\ route = "certificate"
    /\ certificateFeedbackCalls = 0
    /\ session = 1
    /\ storedBy = 0
    /\ PrintIdle
    /\ LogIdle
    /\ logEnv = [NEXT_PUBLIC_SUPABASE_URL |-> "url", SUPABASE_SERVICE_ROLE_KEY |-> "service"]
    /\ KeepAliveIdle
    /\ kaEnv = [CRON_SECRET |-> "s1", NEXT_PUBLIC_SUPABASE_URL |-> "url",
                SUPABASE_SECRET_KEY |-> "secret", SUPABASE_SERVICE_ROLE_KEY |-> "service",
                SUPABASE_PUBLISHABLE_KEY |-> "publishable",
                NEXT_PUBLIC_SUPABASE_ANON_KEY |-> "anon"]
    /\ MigrateIdle

CertNext ==
    \/ CertificateMount
    \/ \E mode \in PrintModes : handlePrint(mode)
    \/ BrowserPrint
    \/ AfterPrint
    \/ handleHome

CertSpec == CertInit /\ [][CertNext]_vars

\* C29: a certificate is on screen only for a stored text that exists and
\* parses; for an absent or unparsable text the page has redirected once the
\* mount effect has run and shows no certificate; the mount effect always
\* runs and ends the loading state.
C29_RenderOnlyParsedData ==
    /\ isLoading => (route = "certificate" => ENABLED (CertificateMount /\ ~isLoading'))
    /\ certData # <<>> =>
          /\ localStorage # <<>>
          /\ ~parseThrows(localStorage[1])
          /\ certData = localStorage
    /\ (~isLoading /\ (localStorage = <<>> \/ localStorage = <<malformedJson>>)) =>
          /\ route = "redirected"
          /\ certData = <<>>
          /\ ~CertificateRendered
    /\ route = "redirected" => (localStorage = <<>> \/ localStorage = <<malformedJson>>)

C29_Witness ==
    /\ route = "redirected"
    /\ ~isLoading
    /\ localStorage = <<malformedJson>>
    /\ certData = <<>>

\* C30: the body carries at most one print-mode class, and only while a print
\* requested by handlePrint is in progress, when it is the class of that
\* request; with no print in progress the body has no print-mode class and no
\* print listener is registered.
C30_OnePrintModeClass ==
    /\ Cardinality(bodyClasses) <= 1
    /\ printing = <<"handlePrint">> =>
          /\ bodyClasses = {printModeClass(printLog[Len(printLog)])}
          /\ beforeprint = <<printLog[Len(printLog)]>>
          /\ afterprint = <<printLog[Len(printLog)]>>
    /\ printing = <<"browser">> => bodyClasses = {}
    /\ printing = <<>> =>
          /\ bodyClasses = {}
          /\ beforeprint = <<>>
          /\ afterprint = <<>>

C30_Witness ==
    /\ printing = <<"handlePrint">>
    /\ printLog = <<"en", "menu", "hi">>
    /\ bodyClasses = {"print-mode-hi"}

----------------------------------------------------------------------------
\* Several wizard sessions in one browser

\* Sessions follow one another through "Back to Home" on the certificate page.
\* The name_hi field is typed by hand and the sink's answers are left out: they
\* do not touch the certificate store.
SessionsNext ==
    \/ \E l \in Languages : handleLanguageSelect(l)
    \/ \E v \in WizardNameInputs : ChangeName(v)
    \/ \E v \in WizardNameHiInputs : ChangeNameHi(v)
    \/ \E v \in WizardAgeInputs : ChangeAge(v)
    \/ \E v \in GenderInputs : ChangeGender(v)
    \/ \E v \in MobileInputs : ChangeMobile(v)
    \/ \E d \in UNION {statesWithDistricts[s] : s \in WizardStates} : SelectDistrict(d)
    \/ SubmitForm
    \/ BeginAssessment
    \/ \E v \in OptionValues : handleOptionChange(v)
    \/ handleNext
    \/ ResultsEffect
    \/ handleViewCertificate
    \/ CertificateMount
    \/ handleHome

SessionsSpec == Init /\ [][SessionsNext]_vars

\* C28: the certificate shown after a session has reached Results and run its
\* Results effect is built from what that session stored.
C28_CertificateOfThisSession ==
    (CertificateRendered /\ hasLoggedRef) => storedBy = session

====
